---- MODULE Spec2Model ----
(***************************************************************************)
(* Model of main.py, the Azure ML SDK v1 feature usage scanner.            *)
(*                                                                         *)
(* The scan is one sequential process.  A step of the model is one call    *)
(* to an external service (resource graph, Workspace, LinkedService,       *)
(* DataDriftDetector, labeling API) together with the code that runs up    *)
(* to the next such call.  What the service answers is the input of the    *)
(* step and is drawn from a small set.                                     *)
(***************************************************************************)
EXTENDS Integers, Sequences, FiniteSets, TLC

\* ---- bounds ------------------------------------------------------------
NumSubs == 2        \* subscriptions given on the command line
MaxWs == 2          \* workspaces returned for one subscription
MaxItems == 2       \* linked services / drift detectors of one workspace
MaxPages == 2       \* summary pages the labeling API holds for a workspace
MaxPageLen == 2     \* projects on one summary page
MaxGets == MaxPages + 1   \* summary GETs followed in one listing

\* ---- the external services ---------------------------------------------
BSeq(S, n) == UNION {[1..k -> S] : k \in 0..n}

\* datasetType values of the project detail record
DatasetTypes == {"FileDataset", "TabularDataset"}

\* Outcome of one urlopen + json.loads: "ok", or an exception raised inside
\* the try block (transport failure, non-2xx status, undecodable body), or
\* a decodable body that lacks the field the code reads afterwards.
HttpOutcomes == {"ok", "transport", "status", "badjson", "nofield"}

\* the outcomes that raise inside `try: ... except Exception`
RaisesInTry(o) == o \in {"transport", "status", "badjson"}

\* A labeling backend: the summary pages in order, each page the sequence
\* of the datasetTypes of its projects.  Page i < Len carries a nextLink to
\* page i+1; the last page carries none (loop = 0) or one that points back
\* to page `loop`.
Backends ==
    {[pages |-> ps, loop |-> l] :
        ps \in (BSeq(BSeq(DatasetTypes, MaxPageLen), MaxPages) \ {<<>>}),
        l \in 0..MaxPages}

WellFormed(b) == b.loop <= Len(b.pages)

\* the backends of the scan as a whole: one page of at most one project
\* (with or without a nextLink back to itself); the listing over longer
\* chains is explored by SpecCheckV2
ScanBackends ==
    {b \in Backends : Len(b.pages) = 1 /\ Len(b.pages[1]) <= 1}

NoBackend == [pages |-> <<>>, loop |-> 0]

\* "nextLink" in response, and the page it names (0: no nextLink)
NextLink(b, i) == IF i < Len(b.pages) THEN i + 1 ELSE b.loop

\* the {"id", "name"} entries built from response["value"] of page p
PageProjects(b, p) == [i \in 1..Len(b.pages[p]) |-> <<p, i>>]

\* response["datasetType"] of the detail record of a project
DatasetTypeOf(b, id) == b.pages[id[1]][id[2]]

\* ---- state ---------------------------------------------------------------
VARIABLES
    pc,              \* position of main
    sub,             \* index of subscription_id in subscription_id_list
    workspaces,      \* the list returned by get_workspace_list
    wi,              \* index of `workspace` in workspaces
    enum_err,        \* outcome of the resource graph call of this subscription
    connected,       \* "pending", "yes", "failed": Workspace(...) of this workspace
    linked_services, \* len(linked_services) in check_linked_services_usage,
                     \* -1 outside the lifetime of that local
    datadrift,       \* outcome of DataDriftDetector.list(ws), kept until
                     \* the next checker starts
    backend,         \* the labeling API of this workspace
    response,        \* the page held by `response` in get_labeling_projects
    acc,             \* the local list `projects` of get_labeling_projects
    gets,            \* summary GETs issued by this listing
    page_err,        \* outcome of the last summary GET
    projects,        \* `projects` of check_v2_dataset_usage (the return value)
    idx,             \* position of the for loop over projects
    fetched,         \* ids passed to get_project_details, in call order
    detail_err,      \* outcome of the last detail GET
    out,             \* findings printed for this workspace, per checker
    report,          \* the outcome of each workspace of this subscription
                     \* that the loop has left
    closed,          \* per subscription the loop has left, what it left behind
    raised           \* the place an uncaught exception left main from

vars == <<pc, sub, workspaces, wi, enum_err, connected, linked_services,
          datadrift, backend, response, acc, gets, page_err, projects, idx,
          fetched, detail_err, out, report, closed, raised>>

wsVars == <<connected, linked_services, datadrift, backend, response, acc,
            gets, page_err, projects, idx, fetched, detail_err, out>>

scanVars == <<sub, workspaces, wi, enum_err, report, closed>>

v2Vars == <<backend, response, acc, gets, page_err, projects, idx, fetched,
            detail_err>>

NoFindings == [linked |-> <<>>, drift |-> <<>>, v2 |-> <<>>]

Pending == [res |-> "pending", list |-> <<>>]

NoDrift == [kind |-> "pending", n |-> 0, status |-> 0]

\* the state of the per-workspace variables before Workspace(...) is called
WsInit ==
    /\ connected = "pending"
    /\ linked_services = -1
    /\ datadrift = NoDrift
    /\ backend = NoBackend
    /\ response = 0
    /\ acc = <<>>
    /\ gets = 0
    /\ page_err = "none"
    /\ projects = Pending
    /\ idx = 0
    /\ fetched = <<>>
    /\ detail_err = "none"
    /\ out = NoFindings

\* the for loop takes the next workspace: its locals start afresh
WsReset ==
    /\ connected' = "pending"
    /\ linked_services' = -1
    /\ datadrift' = NoDrift
    /\ backend' = NoBackend
    /\ response' = 0
    /\ acc' = <<>>
    /\ gets' = 0
    /\ page_err' = "none"
    /\ projects' = Pending
    /\ idx' = 0
    /\ fetched' = <<>>
    /\ detail_err' = "none"
    /\ out' = NoFindings

Init ==
    /\ pc = "enumerate"
    /\ sub = 1
    /\ workspaces = <<>>
    /\ wi = 0
    /\ enum_err = "none"
    /\ report = <<>>
    /\ closed = <<>>
    /\ raised = "none"
    /\ WsInit

\* an exception nobody catches leaves main
Raise(site) ==
    /\ pc' = "raised"
    /\ raised' = site

Emit(checker, finding) == [out EXCEPT ![checker] = Append(@, finding)]

\* ---- get_workspace_list --------------------------------------------------
\* the value returned when the call or the decoding raised inside the try
OnEnumError == <<>>

\* response["data"]: n workspace descriptors, named by their position
WorkspaceData(n) == [i \in 1..n |-> i]

Enumerate ==
    /\ pc = "enumerate"
    /\ \E o \in HttpOutcomes, n \in 0..MaxWs :
        /\ enum_err' = o
        /\ IF o = "nofield"
           THEN /\ Raise("response[data]")
                /\ UNCHANGED <<workspaces, wi>>
           ELSE /\ workspaces' = IF RaisesInTry(o) THEN OnEnumError
                                 ELSE WorkspaceData(n)
                /\ wi' = 0
                /\ pc' = "next"
                /\ raised' = raised
    /\ UNCHANGED <<sub, report, closed, wsVars>>

\* ---- main: the two for loops ---------------------------------------------
\* what the scan produced for the workspace it leaves
WsStatus ==
    IF connected = "failed"
    THEN IF out = NoFindings THEN "skipped" ELSE "partial"
    ELSE IF Len(out.linked) = 1 /\ Len(out.drift) = 1 /\ Len(out.v2) = 1
         THEN "complete" ELSE "partial"

\* what the loop over the workspaces of a subscription leaves behind, given
\* the outcomes of its workspaces
SubStatus(r) ==
    IF Len(r) # Len(workspaces)
       \/ \E i \in 1..Len(r) : r[i] \notin {"skipped", "complete"}
    THEN "partial"
    ELSE IF \E i \in 1..Len(r) : r[i] = "skipped" THEN "all_but_skipped"
         ELSE "all"

NextWorkspace ==
    /\ pc = "next"
    /\ WsReset
    /\ LET r == IF wi >= 1 THEN Append(report, WsStatus) ELSE report IN
       IF wi < Len(workspaces)
       THEN /\ wi' = wi + 1
            /\ pc' = "connect"
            /\ report' = r
            /\ UNCHANGED <<sub, workspaces, enum_err, closed>>
       ELSE /\ closed' = Append(closed, SubStatus(r))
            /\ IF sub < NumSubs
               THEN /\ sub' = sub + 1
                    /\ workspaces' = <<>>
                    /\ wi' = 0
                    /\ enum_err' = "none"
                    /\ report' = <<>>
                    /\ pc' = "enumerate"
               ELSE /\ pc' = "done"
                    /\ report' = r
                    /\ UNCHANGED <<sub, workspaces, wi, enum_err>>
    /\ UNCHANGED raised

\* the except branch without its `continue`
OnConnectErrorPass == "pass"

\* the except branch of the try around Workspace(...)
OnConnectError == "continue"

Connect ==
    /\ pc = "connect"
    /\ \E ok \in BOOLEAN :
        IF ok
        THEN /\ connected' = "yes"
             /\ pc' = "linked"
        ELSE /\ connected' = "failed"
             /\ pc' = IF OnConnectError = "continue" THEN "next" ELSE "linked"
    /\ UNCHANGED <<scanVars, raised, linked_services, datadrift, v2Vars, out>>

\* ---- main: the order of the three checker calls ---------------------------
\* main calls the v2-dataset checker right after the linked-service checker
AfterCheckerNoDrift(checker) ==
    CASE checker = "linked" -> "v2_list"
      [] checker = "drift" -> "v2_list"

\* where main goes when a checker returns
AfterChecker(checker) ==
    CASE checker = "linked" -> "drift"
      [] checker = "drift" -> "v2_list"

\* ---- check_linked_services_usage -----------------------------------------
\* `if len(linked_services) <= 1`
LinkedFindingOffByOne(n) == IF n <= 1 THEN "NoUsage" ELSE "UsageFound"

LinkedFinding(n) == IF n = 0 THEN "NoUsage" ELSE "UsageFound"

CheckLinked ==
    /\ pc = "linked"
    /\ \E ok \in BOOLEAN, n \in 0..MaxItems :
        IF ok
        THEN /\ linked_services' = n
             /\ out' = Emit("linked", LinkedFinding(n))
             /\ pc' = AfterChecker("linked")
             /\ raised' = raised
        ELSE /\ Raise("LinkedService.list")
             /\ UNCHANGED <<linked_services, out>>
    /\ UNCHANGED <<scanVars, connected, datadrift, v2Vars>>

\* ---- check_datadrift_usage -----------------------------------------------
HttpErrorStatuses == {401, 404, 500}

DriftOutcomes ==
    {[kind |-> "ok", n |-> n, status |-> 200] : n \in 0..MaxItems}
    \cup {[kind |-> "http", n |-> 0, status |-> s] : s \in HttpErrorStatuses}
    \cup {[kind |-> "exception", n |-> 0, status |-> 0]}

\* the handler without the special case for 404
DriftFindingNo404(d) ==
    CASE d.kind = "ok" /\ d.n = 0 -> "NoUsage"
      [] d.kind = "ok" /\ d.n > 0 -> "UsageFound"
      [] OTHER -> "CheckFailed"

DriftFinding(d) ==
    CASE d.kind = "ok" /\ d.n = 0 -> "NoUsage"
      [] d.kind = "ok" /\ d.n > 0 -> "UsageFound"
      [] d.kind = "http" /\ d.status = 404 -> "NoUsage"
      [] d.kind = "http" /\ d.status # 404 -> "CheckFailed"
      [] OTHER -> "CheckFailed"

CheckDrift ==
    /\ pc = "drift"
    /\ \E d \in DriftOutcomes :
        /\ datadrift' = d
        /\ out' = Emit("drift", DriftFinding(d))
    /\ pc' = AfterChecker("drift")
    /\ linked_services' = -1
    /\ UNCHANGED <<scanVars, raised, connected, v2Vars>>

\* ---- get_labeling_projects -----------------------------------------------
\* a handler that returns what was collected so far
OnPageErrorPartial(collected) == [res |-> "list", list |-> collected]

\* the value returned when a summary GET raised inside the try
OnPageError(collected) == [res |-> "None", list |-> <<>>]

Returned(list) == [res |-> "list", list |-> list]

\* `if len(response["value"]) < 1` on the first page
FirstPageEmpty(page) == Len(page) < 1

\* `if not projects`
IsFalsy(r) == r.res = "None" \/ Len(r.list) = 0

\* the listing is looped over without the test for None
IsNoneUntested(r) == FALSE

\* `if projects is None`
IsNone(r) == r.res = "None"

\* the loop of check_v2_dataset_usage when it ends without a return
LoopExhausted == "NoUsage"

\* check_v2_dataset_usage from the return of get_labeling_projects up to
\* the first detail GET
V2AfterListing(r) ==
    /\ projects' = r
    /\ IF IsNone(r)
       THEN /\ out' = Emit("v2", "CheckFailed")
            /\ pc' = "next"
            /\ idx' = idx
       ELSE IF Len(r.list) = 0
            THEN /\ out' = Emit("v2", LoopExhausted)
                 /\ pc' = "next"
                 /\ idx' = idx
            ELSE /\ out' = out
                 /\ pc' = "v2_detail"
                 /\ idx' = 1

GetFirstPage(backends) ==
    /\ pc = "v2_list"
    /\ \E b \in backends, o \in HttpOutcomes :
        /\ WellFormed(b)
        /\ backend' = b
        /\ gets' = 1
        /\ page_err' = o
        /\ CASE RaisesInTry(o) ->
                  /\ V2AfterListing(OnPageError(<<>>))
                  /\ UNCHANGED <<acc, response, raised>>
             [] o = "nofield" ->
                  /\ Raise("response[value]")
                  /\ response' = 1
                  /\ UNCHANGED <<acc, projects, idx, out>>
             [] OTHER ->
                  /\ response' = 1
                  /\ raised' = raised
                  /\ IF FirstPageEmpty(b.pages[1])
                     THEN /\ acc' = <<>>
                          /\ V2AfterListing(Returned(<<>>))
                     ELSE /\ acc' = PageProjects(b, 1)
                          /\ IF NextLink(b, 1) # 0
                             THEN /\ pc' = "v2_page"
                                  /\ UNCHANGED <<projects, idx, out>>
                             ELSE V2AfterListing(Returned(acc'))
    /\ datadrift' = NoDrift
    /\ UNCHANGED <<scanVars, connected, linked_services, fetched, detail_err>>

GetNextPage ==
    /\ pc = "v2_page"
    /\ gets < MaxGets
    /\ \E o \in HttpOutcomes :
        LET target == NextLink(backend, response) IN
        /\ gets' = gets + 1
        /\ page_err' = o
        /\ CASE RaisesInTry(o) ->
                  /\ V2AfterListing(OnPageError(acc))
                  /\ UNCHANGED <<acc, response, raised>>
             [] o = "nofield" ->
                  /\ Raise("response[value]")
                  /\ response' = target
                  /\ UNCHANGED <<acc, projects, idx, out>>
             [] OTHER ->
                  /\ response' = target
                  /\ raised' = raised
                  /\ acc' = acc \o PageProjects(backend, target)
                  /\ IF NextLink(backend, target) # 0
                     THEN /\ pc' = "v2_page"
                          /\ UNCHANGED <<projects, idx, out>>
                     ELSE V2AfterListing(Returned(acc'))
    /\ UNCHANGED <<scanVars, connected, linked_services, datadrift, backend,
                   fetched, detail_err>>

\* ---- get_project_details and the loop of check_v2_dataset_usage ----------
\* the value get_project_details returns: None, or the datasetType
DetailsOf(o, ty) == IF RaisesInTry(o) THEN "None" ELSE ty

\* the loop body without the `return` after the report of an offender
DetailStepNoReturn(ty, i, n) ==
    IF i = n
    THEN [emit |-> (IF ty # "FileDataset" THEN <<"UsageFound">> ELSE <<>>)
                   \o <<"NoUsage">>,
          ret |-> TRUE]
    ELSE [emit |-> IF ty # "FileDataset" THEN <<"UsageFound">> ELSE <<>>,
          ret |-> FALSE]

\* a loop that leaves out the last project of the listing
DetailStepSkipsLast(ty, i, n) ==
    IF ty # "FileDataset"
    THEN [emit |-> <<"UsageFound">>, ret |-> TRUE]
    ELSE IF i >= n - 1
         THEN [emit |-> <<"NoUsage">>, ret |-> TRUE]
         ELSE [emit |-> <<>>, ret |-> FALSE]

\* one pass of the loop body on a detail record, for project i of n
DetailStep(ty, i, n) ==
    IF ty # "FileDataset"
    THEN [emit |-> <<"UsageFound">>, ret |-> TRUE]
    ELSE IF i = n
         THEN [emit |-> <<LoopExhausted>>, ret |-> TRUE]
         ELSE [emit |-> <<>>, ret |-> FALSE]

FetchDetail ==
    /\ pc = "v2_detail"
    /\ \E o \in HttpOutcomes :
        LET project == projects.list[idx]
            details == DetailsOf(o, DatasetTypeOf(backend, project))
            step == DetailStep(details, idx, Len(projects.list))
        IN
        /\ fetched' = Append(fetched, project)
        /\ detail_err' = o
        /\ CASE o = "nofield" ->
                  /\ Raise("response[datasetType]")
                  /\ UNCHANGED <<out, idx>>
             [] details = "None" ->
                  /\ Raise("details[datasetType]")
                  /\ UNCHANGED <<out, idx>>
             [] OTHER ->
                  /\ out' = [out EXCEPT !.v2 = @ \o step.emit]
                  /\ raised' = raised
                  /\ IF step.ret
                     THEN pc' = "next" /\ idx' = idx
                     ELSE pc' = "v2_detail" /\ idx' = idx + 1
    /\ UNCHANGED <<scanVars, connected, linked_services, datadrift, backend,
                   response, acc, gets, page_err, projects>>

\* ---- the scan --------------------------------------------------------------
Next ==
    \/ Enumerate
    \/ NextWorkspace
    \/ Connect
    \/ CheckLinked
    \/ CheckDrift
    \/ GetFirstPage(ScanBackends)
    \/ GetNextPage
    \/ FetchDetail

Spec == Init /\ [][Next]_vars

\* ---- check_v2_dataset_usage on its own --------------------------------------
\* main has connected to the first workspace of the first subscription and
\* the linked-service and data-drift checkers have returned
InitCheckV2 ==
    /\ pc = "v2_list"
    /\ sub = 1
    /\ workspaces \in {WorkspaceData(n) : n \in 1..MaxWs}
    /\ wi = 1
    /\ enum_err = "ok"
    /\ report = <<>>
    /\ closed = <<>>
    /\ raised = "none"
    /\ connected = "yes"
    /\ linked_services = -1
    /\ datadrift \in DriftOutcomes
    /\ \E n \in 0..MaxItems :
        out = [linked |-> <<LinkedFinding(n)>>,
               drift |-> <<DriftFinding(datadrift)>>,
               v2 |-> <<>>]
    /\ backend = NoBackend
    /\ response = 0
    /\ acc = <<>>
    /\ gets = 0
    /\ page_err = "none"
    /\ projects = Pending
    /\ idx = 0
    /\ fetched = <<>>
    /\ detail_err = "none"

NextCheckV2 ==
    \/ GetFirstPage(Backends)
    \/ GetNextPage
    \/ FetchDetail

SpecCheckV2 == InitCheckV2 /\ [][NextCheckV2]_vars

TypeOK ==
    /\ pc \in {"enumerate", "next", "connect", "linked", "drift", "v2_list",
               "v2_page", "v2_detail", "done", "raised"}
    /\ sub \in 1..NumSubs
    /\ wi \in 0..Len(workspaces)
    /\ Len(workspaces) <= MaxWs
    /\ connected \in {"pending", "yes", "failed"}
    /\ gets \in 0..MaxGets
    /\ idx \in 0..Len(projects.list)
    /\ Len(fetched) <= Len(projects.list)

\* ---- properties ------------------------------------------------------------
\* the backend is a finite chain: its last page has no nextLink
IsChain(b) == b.loop = 0

RECURSIVE ConcatPages(_, _)
\* the `value` entries of pages p, p+1, ... of the backend, in order
ConcatPages(b, p) ==
    IF p > Len(b.pages) THEN <<>>
    ELSE PageProjects(b, p) \o ConcatPages(b, p + 1)

\* some project on some page has a datasetType other than "FileDataset"
AnyV2(b) ==
    \E p \in 1..Len(b.pages) : \E i \in 1..Len(b.pages[p]) :
        b.pages[p][i] # "FileDataset"

Offender(id) == DatasetTypeOf(backend, id) # "FileDataset"

\* position of the first offender of a listing, 0 when there is none
FirstOffender(list) ==
    IF \E i \in 1..Len(list) : Offender(list[i])
    THEN CHOOSE i \in 1..Len(list) :
            /\ Offender(list[i])
            /\ \A j \in 1..(i - 1) : ~Offender(list[j])
    ELSE 0

\* C1: whenever get_labeling_projects returns a list for a finite chain of
\* pages, the list is the concatenation of the `value` entries of all pages
\* of the chain, in page order and within-page order.
C1_AllPagesConcatenated ==
    (projects.res = "list" /\ IsChain(backend))
        => projects.list = ConcatPages(backend, 1)

\* C2: no failure of a checker of a connected workspace leaves main: the
\* scan is never ended by an exception of the linked-service, data-drift or
\* v2-dataset checker.
C2_FailIsolation ==
    pc = "raised" =>
        raised \notin {"LinkedService.list", "response[value]",
                       "response[datasetType]", "details[datasetType]"}

\* C3: when the listing succeeded and project k is its first offender, the
\* detail fetches are a prefix of the listing of length at most k, and the
\* checker ends with the single finding UsageFound after exactly k fetches.
C3_ShortCircuit ==
    LET k == FirstOffender(projects.list) IN
    (projects.res = "list" /\ k > 0) =>
        /\ Len(fetched) <= k
        /\ fetched = SubSeq(projects.list, 1, Len(fetched))
        /\ pc = "next" => (out.v2 = <<"UsageFound">> /\ Len(fetched) = k)
        /\ pc = "v2_detail" => out.v2 = <<>>

C3_Witness ==
    /\ pc = "next"
    /\ projects.res = "list"
    /\ Len(projects.list) >= 3
    /\ FirstOffender(projects.list) = 2
    /\ fetched = SubSeq(projects.list, 1, 2)
    /\ out.v2 = <<"UsageFound">>

\* C4: when the listing and every detail fetch succeeded on a finite chain
\* of pages, the checker reports UsageFound if some project on some page
\* has a datasetType other than "FileDataset", and NoUsage otherwise.
C4_UsageIffAnyProject ==
    (pc = "next" /\ projects.res = "list" /\ IsChain(backend)) =>
        out.v2 = IF AnyV2(backend) THEN <<"UsageFound">> ELSE <<"NoUsage">>

\* C5: when DataDriftDetector.list fails, check_datadrift_usage reports
\* NoUsage for HTTP 404 and CheckFailed for any other HTTP status or
\* exception, exactly once, and main goes on with the v2-dataset check.
C5_DriftErrors ==
    datadrift.kind \in {"http", "exception"} =>
        /\ pc = "v2_list"
        /\ out.drift = IF datadrift.kind = "http" /\ datadrift.status = 404
                       THEN <<"NoUsage">> ELSE <<"CheckFailed">>

C5_Witness ==
    /\ datadrift.kind = "http"
    /\ datadrift.status = 404
    /\ out.drift = <<"NoUsage">>
    /\ pc = "v2_list"

C7_DetailFailureIsCheckFailed ==
    RaisesInTry(detail_err) =>
        /\ pc # "raised"
        /\ out.v2 = <<"CheckFailed">>

\* C8: a workspace whose connection raised gets no finding and no checker
\* call and main goes on to the next workspace; every workspace the scan
\* left is either skipped or has its three findings, every subscription
\* the scan left had each of its workspaces gone through, and a scan that
\* completes has left every subscription.
C8_ConnectFailureSkips ==
    /\ connected = "failed" =>
        /\ pc = "next"
        /\ out = NoFindings
        /\ linked_services = -1
        /\ datadrift = NoDrift
        /\ gets = 0
        /\ fetched = <<>>
    /\ \A i \in 1..Len(report) : report[i] \in {"skipped", "complete"}
    /\ \A s \in 1..Len(closed) : closed[s] \in {"all", "all_but_skipped"}
    /\ pc = "done" => (Len(closed) = NumSubs /\ Len(report) = Len(workspaces))

C8_Witness ==
    /\ pc = "done"
    /\ closed[1] = "all_but_skipped"
    /\ report = <<"skipped", "complete">>

\* C9: whenever the resource graph call of a subscription fails, the
\* workspace list is empty and the scan has not raised.
C9_EnumFailureIsEmpty ==
    enum_err \notin {"none", "ok"} =>
        /\ pc # "raised"
        /\ workspaces = <<>>

\* C10: when the listing succeeds with zero projects, the checker reports
\* NoUsage, once, and no detail fetch is issued.
C10_ZeroProjects ==
    (projects.res = "list" /\ projects.list = <<>>) =>
        /\ out.v2 = <<"NoUsage">>
        /\ fetched = <<>>
        /\ pc = "next"

C10_Witness ==
    /\ projects.res = "list"
    /\ projects.list = <<>>
    /\ out.v2 = <<"NoUsage">>
    /\ fetched = <<>>
    /\ gets = 1

\* C11: when get_labeling_projects returns None, the checker has printed
\* CheckFailed and nothing else, the loop over the projects was not entered
\* and no detail was fetched.
C11_ListingFailureStops ==
    projects.res = "None" =>
        /\ out.v2 = <<"CheckFailed">>
        /\ idx = 0
        /\ fetched = <<>>
        /\ detail_err = "none"
        /\ pc = "next"

C11_Witness ==
    /\ projects.res = "None"
    /\ page_err = "status"
    /\ out.v2 = <<"CheckFailed">>
    /\ fetched = <<>>

\* the workspace of this iteration has its three findings
ThreeFindings == Len(out.linked) = 1 /\ Len(out.drift) = 1 /\ Len(out.v2) = 1

\* C12: the scan is sequential.  The subscriptions the loop has left are
\* exactly those before the current one and the workspaces it has left are
\* exactly those before the current one; within a workspace the position
\* of main tells which checkers have reported: none before Connect and the
\* linked-service check, only the linked-service one before the data-drift
\* check, those two before and during the v2-dataset check; and every
\* connected workspace the loop has left has all three findings.
C12_Sequential ==
    /\ Len(closed) = IF pc = "done" THEN NumSubs ELSE sub - 1
    /\ Len(report) = IF pc = "done" THEN Len(workspaces)
                     ELSE IF wi = 0 THEN 0 ELSE wi - 1
    /\ \A i \in 1..Len(report) : report[i] \in {"skipped", "complete"}
    /\ pc \in {"enumerate", "connect"} => (connected = "pending" /\ out = NoFindings)
    /\ pc = "linked" => (connected = "yes" /\ out = NoFindings)
    /\ pc = "drift" =>
        (connected = "yes" /\ Len(out.linked) = 1 /\ out.drift = <<>>
         /\ out.v2 = <<>> /\ gets = 0)
    /\ pc \in {"v2_list", "v2_page", "v2_detail"} =>
        (connected = "yes" /\ Len(out.linked) = 1 /\ Len(out.drift) = 1
         /\ out.v2 = <<>>)
    /\ (pc = "next" /\ connected = "yes") => ThreeFindings

C12_Witness ==
    /\ pc = "connect"
    /\ sub = NumSubs
    /\ wi = 2
    /\ report = <<"complete">>
    /\ Len(closed) = NumSubs - 1

\* what the linked-service checker printed agrees with the length of the list
LinkedAgrees ==
    linked_services >= 0 =>
        out.linked = IF linked_services = 0 THEN <<"NoUsage">>
                     ELSE <<"UsageFound">>

\* C13 as stated: the linked-service checker reports NoUsage exactly when
\* the list is empty and UsageFound otherwise, and the data-drift checker
\* reports NoUsage exactly when the detector list call succeeds with an
\* empty list and UsageFound when it succeeds with one or more entries.
C13_NoUsageExactlyWhenEmpty ==
    /\ LinkedAgrees
    /\ datadrift.kind # "pending" =>
        /\ out.drift = <<"NoUsage">>
              <=> (datadrift.kind = "ok" /\ datadrift.n = 0)
        /\ (datadrift.kind = "ok" /\ datadrift.n > 0)
              => out.drift = <<"UsageFound">>

\* C13 as amended: the linked-service checker reports NoUsage exactly when
\* the list is empty and UsageFound otherwise, and the data-drift checker
\* reports NoUsage exactly when the detector list call succeeds with an
\* empty list or fails with HTTP 404, and UsageFound when it succeeds with
\* one or more entries.
C13_NoUsageWhenEmptyOr404 ==
    /\ LinkedAgrees
    /\ datadrift.kind # "pending" =>
        /\ out.drift = <<"NoUsage">>
              <=> \/ datadrift.kind = "ok" /\ datadrift.n = 0
                  \/ datadrift.kind = "http" /\ datadrift.status = 404
        /\ (datadrift.kind = "ok" /\ datadrift.n > 0)
              => out.drift = <<"UsageFound">>

C13_Witness ==
    /\ pc = "v2_list"
    /\ datadrift.kind = "ok"
    /\ datadrift.n = 0
    /\ out.drift = <<"NoUsage">>
    /\ out.linked = <<"UsageFound">>

\* C14: in a listing that was returned, the details fetched are a prefix
\* of the listing (listing order, each entry at most once), every project
\* before the one fetched last was found to be "FileDataset", and when all
\* projects are "FileDataset" the checker ends after as many detail fetches
\* as there are listed projects.
C14_FetchesInListingOrder ==
    projects.res = "list" =>
        /\ Len(fetched) <= Len(projects.list)
        /\ \A j \in 1..Len(fetched) : fetched[j] = projects.list[j]
        /\ \A j \in 1..(Len(fetched) - 1) : ~Offender(fetched[j])
        /\ pc = "v2_detail" => Len(fetched) = idx - 1
        /\ (pc = "next" /\ FirstOffender(projects.list) = 0)
              => Len(fetched) = Len(projects.list)

C14_Witness ==
    /\ pc = "next"
    /\ projects.res = "list"
    /\ Len(projects.list) >= 3
    /\ FirstOffender(projects.list) = 0
    /\ fetched = projects.list
    /\ out.v2 = <<"NoUsage">>

Findings == {"NoUsage", "UsageFound", "CheckFailed"}

\* C15: a checker never prints more than one finding for a workspace, what
\* it prints is NoUsage, UsageFound or CheckFailed, and a checker that has
\* returned has printed exactly one.
C15_ExactlyOneFinding ==
    /\ \A c \in {"linked", "drift", "v2"} :
        /\ Len(out[c]) <= 1
        /\ \A i \in 1..Len(out[c]) : out[c][i] \in Findings
    /\ pc \in {"drift", "v2_list", "v2_page", "v2_detail"} => Len(out.linked) = 1
    /\ pc \in {"v2_list", "v2_page", "v2_detail"} => Len(out.drift) = 1
    /\ (pc = "next" /\ connected = "yes") =>
        (Len(out.linked) = 1 /\ Len(out.drift) = 1 /\ Len(out.v2) = 1)

C15_Witness ==
    /\ pc = "next"
    /\ connected = "yes"
    /\ out = [linked |-> <<"UsageFound">>, drift |-> <<"CheckFailed">>,
              v2 |-> <<"UsageFound">>]

\* C16: a listing issues at most one summary GET per page of its backend,
\* and it is inside its pagination loop only while a page of the backend is
\* still unfetched, whatever the nextLink of the last page says.
C16_OneGetPerPage ==
    /\ gets <= Len(backend.pages)
    /\ pc = "v2_page" => gets < Len(backend.pages)

====
